---- MODULE Spec2Model ----
(***************************************************************************)
(* hemerologion-bot: the post generator (hemerologion.py) and the          *)
(* publisher (hemerologion-post.py).                                       *)
(*                                                                         *)
(* The calendar arithmetic lives in the external libraries heniautos and   *)
(* juliandate.  They are represented here by a scaled-down calendar with   *)
(* the same shape: civil years made of named months, Athenian years that   *)
(* start inside the civil year of the same number, follow one another      *)
(* without a gap, are made of hollow and full months and are ordinary or   *)
(* intercalary.  Only dates of the common era are covered.                 *)
(***************************************************************************)
EXTENDS Integers, Sequences, FiniteSets, TLC

VARIABLES
    now,        \* datetime.today(): the civil date, [y, b, d]
    file,       \* rows of the saved TSV file (the generator's --file)
    exists,     \* whether that file exists
    runs,       \* generator runs made so far
    last,       \* options of the latest generator run, and how it ended
    earlier,    \* options of the run before it
    prev,       \* rows the latest generator run loaded (its current_posts)
    added,      \* rows the latest generator run generated
    env,        \* os.environ: BLUESKY and MASTODON
    cli,        \* the publisher's parsed arguments (its args)
    pc,         \* where the publisher is, or the exception that ended it
    loaded,     \* the rows load_posts returned
    day_posts,  \* the rows posts_for_day kept (its posts)
    pos,        \* the row of day_posts the loop is at
    sent,       \* the requests made to the networks, in order
    handled,    \* serial indexes of the rows args.func was called with
    printed,    \* the texts show_posts printed
    arg,        \* argument of a function called on its own
    res         \* its result

genvars == <<now, file, exists, runs, last, earlier, prev, added>>
pubvars == <<env, cli, pc, loaded, day_posts, pos, sent, handled, printed>>
fnvars == <<arg, res>>
vars == <<genvars, pubvars, fnvars>>

NoArgs == [func |-> "", for_date |-> [y |-> 0, b |-> "", d |-> 0], private |-> FALSE]

GenIdle ==
    /\ exists = FALSE /\ runs = 0 /\ prev = <<>> /\ added = <<>>

PubIdle ==
    /\ env = [v \in {"BLUESKY", "MASTODON"} |-> "<unset>"]
    /\ cli = NoArgs /\ pc = "idle" /\ loaded = <<>> /\ day_posts = <<>> /\ pos = 0
    /\ sent = <<>> /\ handled = <<>> /\ printed = <<>>

FnIdle == arg = 0 /\ res = 0

-----------------------------------------------------------------------------
(* Bounds of the model *)

MaxDays == 2        \* largest N given to -d
MaxRuns == 3        \* generator runs in one behaviour
MaxAdvance == 1     \* midnights that pass in one behaviour
FirstYear == 2      \* civil year the behaviour starts in
LastYearOpt == 1    \* -y takes a year in 1 .. LastYearOpt

-----------------------------------------------------------------------------
(* Helpers *)

SeqMax(s) == CHOOSE m \in {s[i] : i \in 1..Len(s)} : \A i \in 1..Len(s) : s[i] <= m

RECURSIVE SeqSum(_)
SeqSum(s) == IF s = <<>> THEN 0 ELSE Head(s) + SeqSum(Tail(s))

RECURSIVE Flatten(_)
Flatten(ss) == IF ss = <<>> THEN <<>> ELSE Head(ss) \o Flatten(Tail(ss))

-----------------------------------------------------------------------------
(* The civil calendar (juliandate, datetime): a year of two named months.  *)

MonthAbbr == <<"Jan", "Jul">>
MonthDays == <<3, 3>>
CivilYearLen == SeqSum(MonthDays)

DaysBefore(m) == SeqSum(SubSeq(MonthDays, 1, m - 1))

\* jd.from_gregorian(y, m, d) + 0.5, truncated: the day's Julian day number
from_gregorian(y, m, d) == (y - 1) * CivilYearLen + DaysBefore(m) + d

\* ha.as_gregorian(jdn).split()[-1]: the date as "YYYY-Mon-DD"
gregorian_of_jdn(jdn) ==
    LET y == ((jdn - 1) \div CivilYearLen) + 1
        r == (jdn - 1) % CivilYearLen
        m == CHOOSE k \in 1..Len(MonthDays) :
                 DaysBefore(k) <= r /\ r < DaysBefore(k) + MonthDays[k]
    IN  [y |-> y, b |-> MonthAbbr[m], d |-> r - DaysBefore(m) + 1]

\* datetime.strptime(date, "%Y-%b-%d").timetuple()[:3]
strptime(date) ==
    <<date.y, CHOOSE k \in 1..Len(MonthAbbr) : MonthAbbr[k] = date.b, date.d>>

jdn_from_date(date) ==
    LET t == strptime(date) IN from_gregorian(t[1], t[2], t[3])

today_jdn == from_gregorian(strptime(now)[1], strptime(now)[2], strptime(now)[3])

today_year == now.y

-----------------------------------------------------------------------------
(* The Athenian calendar (heniautos).  Odd years are ordinary, with a full *)
(* and a hollow month; even years are intercalary, with one month more.    *)

MonthKinds == [hollow |-> 2, full |-> 3]
HollowLen == MonthKinds.hollow
FullLen == MonthKinds.full

AthMonths(year) ==
    IF year % 2 = 1 THEN <<FullLen, HollowLen>> ELSE <<HollowLen, FullLen, HollowLen>>

MonthNames == <<"Hekatombaion", "Metageitnion", "Boedromion">>

year_length(year) == SeqSum(AthMonths(year))

\* The first day of the Athenian year that starts in civil year `year`.
NewYearJdn(year) ==
    from_gregorian(year, 2, 1) + (IF year % 2 = 1 THEN 1 ELSE 0)

MonthOfDoy(year, doy) ==
    CHOOSE k \in 1..Len(AthMonths(year)) :
        LET before == SeqSum(SubSeq(AthMonths(year), 1, k - 1))
        IN  before < doy /\ doy <= before + AthMonths(year)[k]

athenian_festival_calendar(year) ==
    [doy \in 1..year_length(year) |->
        LET m == MonthOfDoy(year, doy)
        IN  [jdn |-> NewYearJdn(year) + doy - 1,
             doy |-> doy,
             month |-> m,
             day |-> doy - SeqSum(SubSeq(AthMonths(year), 1, m - 1)),
             month_length |-> AthMonths(year)[m],
             month_name |-> MonthNames[m],
             year_length |-> year_length(year),
             astronomical_year |-> year]]

-----------------------------------------------------------------------------
(* get_calendar *)

\* [d for d in cal if d.jdn > from_jdn][0:count]
FirstAfter(cal, from_jdn, count) ==
    LET later == SelectSeq(cal, LAMBDA d : d.jdn > from_jdn)
    IN  SubSeq(later, 1, IF Len(later) < count THEN Len(later) ELSE count)

\* Mutant: the following year is asked for the whole count again.
RECURSIVE get_count_of_days_whole(_, _, _)
get_count_of_days_whole(count, year, from_jdn) ==
    LET cal == FirstAfter(athenian_festival_calendar(year), from_jdn, count)
    IN  IF Len(cal) < count
        THEN cal \o get_count_of_days_whole(count, year + 1, from_jdn)
        ELSE cal

RECURSIVE get_count_of_days(_, _, _)
get_count_of_days(count, year, from_jdn) ==
    LET cal == FirstAfter(athenian_festival_calendar(year), from_jdn, count)
    IN  IF Len(cal) < count
        THEN cal \o get_count_of_days(count - Len(cal), year + 1, from_jdn)
        ELSE cal

\* options.year and options.days are tested for truth: 0 is "not given".
get_calendar(options) ==
    IF options.year # 0
    THEN [err |-> "ok", cal |-> athenian_festival_calendar(options.year)]
    ELSE IF options.days # 0
    THEN [err |-> "ok",
          cal |-> get_count_of_days(options.days, today_year - 1, today_jdn)]
    ELSE [err |-> "KeyError", cal |-> <<>>]

-----------------------------------------------------------------------------
(* Posts.  A post's text is a sequence of tokens; "\n" is a line break.    *)

AMPH == "amphora"

\* festivals.tsv: month, day (-1: the last day), text, link, name, days
FEST == <<
    [month |-> 1, day |-> 2, text |-> "The Kronia", link |-> "", name |-> "Kronia", span |-> 1],
    [month |-> 2, day |-> -1, text |-> "The Khalkeia", link |-> "khalkeia.html", name |-> "Khalkeia", span |-> 1] >>

gregorian_date(day) == gregorian_of_jdn(day.jdn)

\* Mutant: only the 30th is taken for the last day of a month.
backwards_count_30th(day) ==
    IF day.day = 30 THEN [err |-> "ok", val |-> -1]
    ELSE IF day.day < day.month_length THEN [err |-> "ok", val |-> day.day]
    ELSE [err |-> "ValueError", val |-> 0]

backwards_count(day) ==
    IF day.day = day.month_length THEN [err |-> "ok", val |-> -1]
    ELSE IF day.day < day.month_length THEN [err |-> "ok", val |-> day.day]
    ELSE [err |-> "ValueError", val |-> 0]

festivals_by_day(day) ==
    LET day_day == backwards_count(day)
    IN  [err |-> day_day.err,
         val |-> IF day_day.err = "ok"
                 THEN SelectSeq(FEST, LAMBDA f : f.month = day.month /\ f.day = day_day.val)
                 ELSE <<>>]

festivals(day) ==
    LET in_month == festivals_by_day(day)
        texts == Flatten([i \in 1..Len(in_month.val) |->
                     IF i = 1 THEN <<in_month.val[i].text>>
                     ELSE <<"\n", in_month.val[i].text>>])
        links == SelectSeq(in_month.val, LAMBDA f : f.link # "")
        linktext == Flatten([i \in 1..Len(links) |->
                     IF i = 1 THEN <<links[i].link>> ELSE <<"\n", links[i].link>>])
    IN  IF in_month.err # "ok" THEN [err |-> in_month.err, posts |-> <<>>]
        ELSE IF in_month.val = <<>> THEN [err |-> "ok", posts |-> <<>>]
        ELSE IF links # <<>>
        THEN [err |-> "ok", posts |-> << <<AMPH>> \o texts \o <<"\n", "\n">> \o linktext >>]
        ELSE [err |-> "ok", posts |-> << <<AMPH>> \o texts >>]

festival_summary(day) ==
    LET in_month == SelectSeq(FEST, LAMBDA d : d.month = day.month /\ d.span >= 1)
    IN  IF day.day # 1 THEN <<>>
        ELSE IF in_month # <<>>
        THEN << <<"Festivals in", day.month_name, "\n", "\n">>
                \o Flatten([i \in 1..Len(in_month) |->
                     IF i = 1 THEN <<in_month[i].name>> ELSE <<"\n", in_month[i].name>>]) >>
        ELSE <<>>

month_summary(day) ==
    IF day.day # 1 THEN <<>>
    ELSE IF day.month_length = HollowLen
    THEN << <<"This", day.month_name, "will be a hollow month">> >>
    ELSE << <<"This", day.month_name, "will be a full month">> >>

\* The shortest intercalary year (380 days in the source).
MinIntercalary == SeqSum(<<HollowLen, FullLen, HollowLen>>)

summarize_first_half(day1) ==
    IF day1.year_length < MinIntercalary
    THEN [err |-> "ok",
          val |-> <<"ordinary year of", ToString(day1.year_length), "days (1/2):", "\n", "\n",
                    "first months", "\n">>]
    ELSE [err |-> "ValueError", val |-> <<>>]

summarize_second_half(day1) ==
    <<"Months in", ToString(day1.astronomical_year), "(2/2):", "\n", "\n", "last months", "\n">>

year_summary(day) ==
    IF day.doy # 1 THEN [err |-> "ok", posts |-> <<>>]
    ELSE LET day1 == athenian_festival_calendar(day.astronomical_year)[1]
             first == summarize_first_half(day1)
         IN  IF first.err # "ok" THEN [err |-> first.err, posts |-> <<>>]
             ELSE [err |-> "ok", posts |-> <<first.val, summarize_second_half(day1)>>]

doy_count(day) ==
    IF day.doy = 1 THEN <<"day 1 of", ToString(day.year_length), "Happy New Year">>
    ELSE IF day.doy = day.year_length THEN <<"the last day of the year">>
    ELSE <<"day", ToString(day.doy), "of", ToString(day.year_length)>>

postulate(day) ==
    LET post == <<"Today", ToString(gregorian_date(day)), "is", day.month_name,
                  ToString(day.day)>> \o doy_count(day)
        ys == year_summary(day)
        fs == festivals(day)
    IN  IF ys.err # "ok" THEN [err |-> ys.err, posts |-> <<>>]
        ELSE IF fs.err # "ok" THEN [err |-> fs.err, posts |-> <<>>]
        ELSE [err |-> "ok",
              posts |-> <<post>> \o ys.posts \o month_summary(day)
                        \o festival_summary(day) \o fs.posts]

escape(s) == Flatten([i \in 1..Len(s) |-> IF s[i] = "\n" THEN <<"\\n">> ELSE <<s[i]>>])

unescape(s) == [i \in 1..Len(s) |-> IF s[i] = "\\n" THEN "\n" ELSE s[i]]

-----------------------------------------------------------------------------
(* The generator: hemerologion.py with --csv.  A row of the TSV file is    *)
(* [idx, date, chars, text].  The csv reader returns idx and chars as      *)
(* floats and output_existing writes them back through int(): the same     *)
(* integer.                                                                *)

DefaultDays == 10

get_current_posts(fn) == fn

max_count(posts) ==
    IF posts = <<>> THEN 0 ELSE SeqMax([i \in 1..Len(posts) |-> posts[i].idx])

\* Mutant: the date of the first row stands for the latest date.
max_date_first(posts) ==
    IF posts = <<>> THEN 0 ELSE jdn_from_date(posts[1].date)

max_date(posts) ==
    IF posts = <<>> THEN 0
    ELSE SeqMax([i \in 1..Len(posts) |-> jdn_from_date(posts[i].date)])

\* Mutant: the next index is counted from the rows that are kept.
output_existing_kept(args, after) ==
    LET current_posts == IF args.append THEN get_current_posts(file) ELSE <<>>
        rows == SelectSeq(current_posts,
                    LAMBDA post : args.keep_old \/ jdn_from_date(post.date) >= after)
    IN  [rows |-> rows,
         count |-> max_count(rows) + 1,
         append_after |-> max_date(current_posts)]

\* The rows output_existing writes, and the pair it returns.
output_existing(args, after) ==
    LET current_posts == IF args.append THEN get_current_posts(file) ELSE <<>>
    IN  [rows |-> SelectSeq(current_posts,
                      LAMBDA post : args.keep_old \/ jdn_from_date(post.date) >= after),
         count |-> max_count(current_posts) + 1,
         append_after |-> max_date(current_posts)]

WriteRow(count, day, post) ==
    [idx |-> count, date |-> gregorian_date(day), chars |-> Len(post),
     text |-> escape(post)]

\* Mutant: a day is skipped only when it is earlier than the latest date.
RECURSIVE write_new_from(_, _, _)
write_new_from(cal, count, append_after) ==
    IF cal = <<>> THEN [rows |-> <<>>, err |-> "ok"]
    ELSE IF Head(cal).jdn >= append_after
    THEN LET p == postulate(Head(cal))
             rest == write_new_from(Tail(cal), count + Len(p.posts), append_after)
         IN  IF p.err # "ok" THEN [rows |-> <<>>, err |-> p.err]
             ELSE [rows |-> [k \in 1..Len(p.posts) |->
                                WriteRow(count + k - 1, Head(cal), p.posts[k])]
                            \o rest.rows,
                   err |-> rest.err]
    ELSE write_new_from(Tail(cal), count, append_after)

\* The loop over the calendar: the rows written, and how the loop ended.
RECURSIVE write_new(_, _, _)
write_new(cal, count, append_after) ==
    IF cal = <<>> THEN [rows |-> <<>>, err |-> "ok"]
    ELSE IF Head(cal).jdn > append_after
    THEN LET p == postulate(Head(cal))
             rest == write_new(Tail(cal), count + Len(p.posts), append_after)
         IN  IF p.err # "ok" THEN [rows |-> <<>>, err |-> p.err]
             ELSE [rows |-> [k \in 1..Len(p.posts) |->
                                WriteRow(count + k - 1, Head(cal), p.posts[k])]
                            \o rest.rows,
                   err |-> rest.err]
    ELSE write_new(Tail(cal), count, append_after)

\* The loop of __main__ after output_existing and get_calendar have returned.
main_loop(old, c) ==
    IF c.err # "ok" THEN [kept |-> old.rows, new |-> <<>>, err |-> c.err]
    ELSE LET w == write_new(c.cal, old.count, old.append_after)
         IN  [kept |-> old.rows, new |-> w.rows, err |-> w.err]

\* One run of the script: what it prints, and how it ends.
main(args) ==
    IF args.append /\ ~exists
    THEN [kept |-> <<>>, new |-> <<>>, err |-> "FileNotFoundError"]
    ELSE CHOOSE m \in {main_loop(old, c) : old \in {output_existing(args, today_jdn)},
                                           c \in {get_calendar(args)}} : TRUE

\* -d N, or -y Y (which overrides -d)
Windows ==
    {[year |-> 0, days |-> n] : n \in 0..MaxDays}
    \cup {[year |-> y, days |-> DefaultDays] : y \in 1..LastYearOpt}

NoRun ==
    [year |-> 0, days |-> 0, append |-> FALSE, keep_old |-> TRUE, today |-> 0,
     err |-> "none"]

\* The script is run and its output saved as the TSV file.
Run(args) ==
    /\ runs < MaxRuns
    /\ \E m \in {main(args)} :
           /\ file' = m.kept \o m.new
           /\ added' = m.new
           /\ last' = [year |-> args.year, days |-> args.days, append |-> args.append,
                       keep_old |-> args.keep_old, today |-> today_jdn, err |-> m.err]
    /\ prev' = IF args.append /\ exists THEN file ELSE <<>>
    /\ exists' = TRUE
    /\ runs' = runs + 1
    /\ earlier' = last
    /\ UNCHANGED <<now, pubvars, fnvars>>

\* Without --append nothing is loaded and --keep-old is not read.
GenerateRun ==
    \E w \in Windows :
        Run([year |-> w.year, days |-> w.days, append |-> FALSE, keep_old |-> TRUE])

AppendRun ==
    \E w \in Windows, keep_old \in BOOLEAN :
        Run([year |-> w.year, days |-> w.days, append |-> TRUE, keep_old |-> keep_old])

\* The day the behaviour starts on.
FirstJdn == from_gregorian(FirstYear, 2, 1)

Midnight ==
    /\ today_jdn < FirstJdn + MaxAdvance
    /\ now' = gregorian_of_jdn(today_jdn + 1)
    /\ UNCHANGED <<file, exists, runs, last, earlier, prev, added, pubvars, fnvars>>

GenInit ==
    /\ now = gregorian_of_jdn(FirstJdn)
    /\ file = <<>>
    /\ exists \in BOOLEAN
    /\ runs = 0
    /\ last = NoRun
    /\ earlier = NoRun
    /\ prev = <<>>
    /\ added = <<>>
    /\ PubIdle /\ FnIdle

GenNext == GenerateRun \/ AppendRun \/ Midnight

Spec == GenInit /\ [][GenNext]_vars

-----------------------------------------------------------------------------
(* The publisher: hemerologion-post.py.  The credentials (BLUESKY_ID,      *)
(* MASTODON_KEY, ...) are taken to be set, as the module requires.  Every  *)
(* request to a network ends "ok", with an HTTP error status, or without   *)
(* an answer.                                                              *)

MaxTsvDays == 3     \* days of posts in the TSV file

Outcomes == {"ok", "HTTPError", "ConnectionError"}

EnvValues == {"<unset>", "", "0", "1", "true"}

\* int(s) for the values above
python_int(s) ==
    IF s = "0" THEN [err |-> "ok", val |-> 0]
    ELSE IF s = "1" THEN [err |-> "ok", val |-> 1]
    ELSE [err |-> "ValueError", val |-> 0]

\* int(os.environ.get(name, 0))
environ_flag(name) ==
    IF env[name] = "<unset>" THEN [err |-> "ok", val |-> 0] ELSE python_int(env[name])

load_posts(fn) == fn

\* datetime.now().strftime("%Y-%b-%d") unless a date is given
post_date(d) == IF d # NoArgs.for_date THEN d ELSE now

\* Mutant: the rows are not filtered by date.
posts_for_day_all(date, rows) == rows

posts_for_day(date, rows) == SelectSeq(rows, LAMBDA p : p.date = date)

get_visibility(private) == IF private THEN "direct" ELSE "public"

do_bluesky == environ_flag("BLUESKY")

do_mastodon == environ_flag("MASTODON")

Request(to, endpoint, text, vis, result) ==
    [to |-> to, endpoint |-> endpoint, text |-> text, visibility |-> vis,
     result |-> result]

\* Mutant: a request that failed is made once more.
post_to_bluesky_retry(post, r1, r2) ==
    LET session == Request("bluesky", "createSession", <<>>, "", r1)
        again == Request("bluesky", "createSession", <<>>, "", r2)
        record == Request("bluesky", "createRecord", post, "", r2)
    IN  IF r1 # "ok"
        THEN [reqs |-> <<session, again>>,
              err |-> IF r2 = "ok" THEN "ok" ELSE "HemerologionPostError"]
        ELSE IF r2 = "HTTPError"
        THEN [reqs |-> <<session, record, record>>, err |-> "HemerologionPostError"]
        ELSE IF r2 = "ConnectionError"
        THEN [reqs |-> <<session, record, record>>, err |-> "ConnectionError"]
        ELSE [reqs |-> <<session, record>>, err |-> "ok"]

\* The requests post_to_bluesky makes when they end r1 and r2, and how it ends.
post_to_bluesky(post, r1, r2) ==
    LET session == Request("bluesky", "createSession", <<>>, "", r1)
        record == Request("bluesky", "createRecord", post, "", r2)
    IN  IF r1 = "HTTPError"
        THEN [reqs |-> <<session>>, err |-> "HemerologionPostError"]
        ELSE IF r1 = "ConnectionError"
        THEN [reqs |-> <<session>>, err |-> "ConnectionError"]
        ELSE IF r2 = "HTTPError"
        THEN [reqs |-> <<session, record>>, err |-> "HemerologionPostError"]
        ELSE IF r2 = "ConnectionError"
        THEN [reqs |-> <<session, record>>, err |-> "ConnectionError"]
        ELSE [reqs |-> <<session, record>>, err |-> "ok"]

\* mastodon.status_post(post, visibility=vis, language="en"), ending r
post_to_mastodon(post, vis, r) ==
    LET status_post == Request("mastodon", "statuses", post, vis, r)
    IN  [reqs |-> <<status_post>>, err |-> IF r = "ok" THEN "ok" ELSE "MastodonError"]

post_bluesky(post, r1, r2) ==
    IF do_bluesky.err # "ok" THEN [reqs |-> <<>>, err |-> do_bluesky.err]
    ELSE IF do_bluesky.val = 0 THEN [reqs |-> <<>>, err |-> "ok"]
    ELSE post_to_bluesky(unescape(post.text), r1, r2)

\* post_to_mastodon is called without vis: its default, "public"
post_mastodon(post, r) ==
    IF do_mastodon.err # "ok" THEN [reqs |-> <<>>, err |-> do_mastodon.err]
    ELSE IF do_mastodon.val = 0 THEN [reqs |-> <<>>, err |-> "ok"]
    ELSE post_to_mastodon(unescape(post.text), "public", r)

\* What the generator prints for the first n days after FirstJdn.
TsvFiles ==
    {write_new(get_count_of_days(n, FirstYear - 1, FirstJdn), 1, 0).rows :
        n \in 0..MaxTsvDays}

DateOptions ==
    {NoArgs.for_date} \cup {gregorian_of_jdn(FirstJdn + k) : k \in 2..MaxTsvDays + 1}

\* parse_args, load_posts and posts_for_day
ParseAndLoad ==
    /\ pc = "start"
    /\ \E func \in {"show", "bluesky", "mastodon"}, d \in DateOptions, private \in BOOLEAN :
           /\ cli' = [func |-> func, for_date |-> post_date(d), private |-> private]
           /\ day_posts' = posts_for_day(post_date(d), load_posts(file))
    /\ loaded' = load_posts(file)
    /\ pos' = 1
    /\ pc' = "loop"
    /\ UNCHANGED <<genvars, fnvars, env, sent, handled, printed>>

\* One turn of the loop: args.func(p, args) ends normally or raises.
Handle(reqs, err) ==
    /\ sent' = sent \o [k \in 1..Len(reqs) |->
                          [row |-> day_posts[pos].idx, req |-> reqs[k]]]
    /\ handled' = Append(handled, day_posts[pos].idx)
    /\ IF err = "ok"
       THEN pos' = pos + 1 /\ pc' = pc
       ELSE pos' = pos /\ pc' = err
    /\ UNCHANGED <<genvars, fnvars, env, cli, loaded, day_posts>>

ShowPosts ==
    /\ pc = "loop" /\ pos <= Len(day_posts) /\ cli.func = "show"
    /\ printed' = Append(printed, unescape(day_posts[pos].text))
    /\ Handle(<<>>, "ok")

PostBluesky ==
    /\ pc = "loop" /\ pos <= Len(day_posts) /\ cli.func = "bluesky"
    /\ \E r1, r2 \in Outcomes :
           LET h == post_bluesky(day_posts[pos], r1, r2) IN Handle(h.reqs, h.err)
    /\ UNCHANGED printed

PostMastodon ==
    /\ pc = "loop" /\ pos <= Len(day_posts) /\ cli.func = "mastodon"
    /\ \E r \in Outcomes :
           LET h == post_mastodon(day_posts[pos], r) IN Handle(h.reqs, h.err)
    /\ UNCHANGED printed

Finish ==
    /\ pc = "loop" /\ pos > Len(day_posts)
    /\ pc' = "done"
    /\ UNCHANGED <<genvars, fnvars, env, cli, loaded, day_posts, pos, sent, handled, printed>>

PostInit ==
    /\ now = gregorian_of_jdn(FirstJdn + 2)
    /\ file \in TsvFiles
    /\ last = NoRun /\ earlier = NoRun /\ GenIdle
    /\ env \in [{"BLUESKY", "MASTODON"} -> EnvValues]
    /\ cli = NoArgs /\ pc = "start" /\ loaded = <<>> /\ day_posts = <<>> /\ pos = 0
    /\ sent = <<>> /\ handled = <<>> /\ printed = <<>>
    /\ FnIdle

PostNext == ParseAndLoad \/ ShowPosts \/ PostBluesky \/ PostMastodon \/ Finish

PostSpec == PostInit /\ [][PostNext]_vars

Crashed == pc \notin {"idle", "start", "loop", "done"}

-----------------------------------------------------------------------------
(* get_calendar and backwards_count called on their own, as tests.py does  *)

MaxCalDays == 4     \* largest options.days
MaxMonth == 2       \* months a Day is drawn from
MaxDayNo == 31      \* largest day number of a Day
HollowMonth == 29
FullMonth == 30

NotCalled == [err |-> "none"]

CallGetCalendar ==
    /\ res = NotCalled
    /\ res' = get_calendar(arg)
    /\ UNCHANGED <<genvars, pubvars, arg>>

CalInit ==
    /\ now \in {gregorian_of_jdn(FirstJdn + k) : k \in 0 .. 2 * CivilYearLen - 1}
    /\ arg \in {[year |-> 0, days |-> n] : n \in 0..MaxCalDays}
               \cup {[year |-> y, days |-> DefaultDays] : y \in 1..LastYearOpt}
    /\ res = NotCalled
    /\ file = <<>> /\ last = NoRun /\ earlier = NoRun /\ GenIdle /\ PubIdle

CalSpec == CalInit /\ [][CallGetCalendar]_vars

CallBackwardsCount ==
    /\ res = NotCalled
    /\ res' = backwards_count(arg)
    /\ UNCHANGED <<genvars, pubvars, arg>>

\* Day = namedtuple("Day", ("month", "day", "month_length"))
BcInit ==
    /\ arg \in [month : 1..MaxMonth, day : 1..MaxDayNo,
                month_length : {HollowMonth, FullMonth}]
    /\ res = NotCalled
    /\ now = gregorian_of_jdn(FirstJdn)
    /\ file = <<>> /\ last = NoRun /\ earlier = NoRun /\ GenIdle /\ PubIdle

BcSpec == BcInit /\ [][CallBackwardsCount]_vars

-----------------------------------------------------------------------------
(* Properties of the generator *)

MonthNo(date) == CHOOSE k \in 1..Len(MonthAbbr) : MonthAbbr[k] = date.b

\* The order of two dates as written in the file.
DateBefore(a, b) ==
    \/ a.y < b.y
    \/ a.y = b.y /\ MonthNo(a) < MonthNo(b)
    \/ a.y = b.y /\ MonthNo(a) = MonthNo(b) /\ a.d < b.d

DateOrdered(rows) ==
    \A i, j \in 1..Len(rows) : i < j => ~DateBefore(rows[j].date, rows[i].date)

\* The latest run appended, with --keep-old, to the output of a run over the
\* same window made on the same day.
RerunAny ==
    /\ earlier.err # "none"
    /\ last.append /\ last.keep_old
    /\ last.year = earlier.year /\ last.days = earlier.days
    /\ last.today = earlier.today

\* The same, the earlier run having ended without an exception.
Rerun == RerunAny /\ earlier.err = "ok"

DroppedOld(run) == run.append /\ ~run.keep_old

\* C1 as stated: appending to the output F of any earlier run over the same
\* window on the same day gives F again, row for row.
C1_AppendIdempotent_AnyEarlierRun == Rerun => file = prev

\* C1, amended: appending to the output F of an earlier run over the same
\* window on the same day gives F again, row for row, when F holds at least
\* one row.
C1_AppendIdempotent == (RerunAny /\ prev # <<>>) => (file = prev /\ added = <<>>)

C1_Witness ==
    /\ Rerun /\ last.err = "ok" /\ prev # <<>> /\ file = prev

\* C2: no two rows of the output share a serial index, and every row a run
\* generates has an index greater than every index of the file it loaded,
\* the rows --no-keep-old drops included.
C2_UniqueSerialIndex ==
    /\ \A i, j \in 1..Len(file) : i # j => file[i].idx # file[j].idx
    /\ \A i \in 1..Len(added), j \in 1..Len(prev) : added[i].idx > prev[j].idx

C2_Witness ==
    /\ DroppedOld(last) /\ added # <<>>
    /\ \E j \in 1..Len(prev) : \A i \in 1..Len(file) : file[i] # prev[j]

\* C3: every row an --append run adds is dated after every row of the file
\* it loaded; the added rows follow the existing ones in non-decreasing date
\* order; an existing file in date order gives an output in date order.
C3_DatesMonotonicOnAppend ==
    last.append =>
        /\ \A i \in 1..Len(added), j \in 1..Len(prev) :
               DateBefore(prev[j].date, added[i].date)
        /\ DateOrdered(added)
        /\ Len(added) <= Len(file)
        /\ SubSeq(file, Len(file) - Len(added) + 1, Len(file)) = added
        /\ \A i \in 1..(Len(file) - Len(added)) : \E j \in 1..Len(prev) : file[i] = prev[j]
        /\ DateOrdered(prev) => DateOrdered(file)

C3_Witness ==
    /\ last.append /\ prev # <<>> /\ Len(added) >= 2
    /\ DateBefore(added[1].date, added[Len(added)].date)

-----------------------------------------------------------------------------
(* Properties of the publisher *)

Started == pc \notin {"idle", "start"}

\* Serial indexes of the rows of the file dated cli.for_date, in file order.
MatchingIdx ==
    LET m == SelectSeq(file, LAMBDA p : p.date = cli.for_date)
    IN  [k \in 1..Len(m) |-> m[k].idx]

IsPrefix(s, t) == Len(s) <= Len(t) /\ SubSeq(t, 1, Len(s)) = s

Failed(k) == sent[k].req.result # "ok"

\* C4 as stated: a request that fails is made again, once.
C4_FailedRequestRetriedOnce ==
    \A k \in 1..Len(sent) :
        (Failed(k) /\ (k = 1 \/ sent[k - 1].row # sent[k].row
                             \/ sent[k - 1].req.endpoint # sent[k].req.endpoint))
        => /\ k < Len(sent)
           /\ sent[k + 1].row = sent[k].row
           /\ sent[k + 1].req.endpoint = sent[k].req.endpoint

\* C4, amended: a request that fails is not made again; the exception ends
\* the run at that row, and no other recovery takes place: no later request
\* is made, no later row is handled, nothing is rolled back or queued again.
C4_FailedRequestEndsRun ==
    /\ \A k \in 1..Len(sent) :
           Failed(k) => /\ k = Len(sent)
                        /\ Crashed
                        /\ day_posts[pos].idx = sent[k].row
    /\ \A k, l \in 1..Len(sent) :
           (k # l /\ sent[k].row = sent[l].row)
           => sent[k].req.endpoint # sent[l].req.endpoint
    /\ Crashed => /\ pos <= Len(day_posts)
                  /\ handled = [k \in 1..pos |-> day_posts[k].idx]

C4_Witness ==
    /\ Crashed /\ sent # <<>> /\ Failed(Len(sent))
    /\ pos < Len(day_posts)

\* C5: with --private every status goes to Mastodon with visibility
\* "direct", without it with visibility "public".
C5_PrivateIsDirect ==
    \A k \in 1..Len(sent) :
        sent[k].req.to = "mastodon"
        => sent[k].req.visibility = (IF cli.private THEN "direct" ELSE "public")

\* A true value of an environment variable: set, not empty and not 0.
TrueValue(v) == v \notin {"<unset>", "", "0"}

RequestFor(row, to) ==
    \E k \in 1..Len(sent) : sent[k].row = row /\ sent[k].req.to = to

\* C6: "post bluesky" (resp. "post mastodon") sends a request for a post if
\* and only if BLUESKY (resp. MASTODON) is set to a true value, and "show"
\* never makes a request.
C6_EnabledByEnvironment ==
    /\ cli.func = "show" => sent = <<>>
    /\ cli.func = "bluesky" =>
           \A k \in 1..Len(handled) :
               RequestFor(handled[k], "bluesky") <=> TrueValue(env["BLUESKY"])
    /\ cli.func = "mastodon" =>
           \A k \in 1..Len(handled) :
               RequestFor(handled[k], "mastodon") <=> TrueValue(env["MASTODON"])

\* C7 as stated: a run handles exactly the rows of the requested date, each
\* once, in file order.
C7_EveryRunHandlesEveryRow ==
    (pc = "done" \/ Crashed) => handled = MatchingIdx

\* C7, amended: a run handles the rows of the requested date one after
\* another in file order, each at most once, for the selected platform only,
\* and all of them when it ends without an exception; an exception ends it
\* at the row that raised it.  No other row is sent and the file is not
\* changed.
C7_SequentialDateFiltered ==
    Started =>
        /\ IsPrefix(handled, MatchingIdx)
        /\ pc = "done" => handled = MatchingIdx
        /\ Crashed => handled # <<>> /\ Len(handled) = pos
        /\ \A k \in 1..Len(sent) :
               /\ sent[k].req.to = cli.func
               /\ \E h \in 1..Len(handled) : handled[h] = sent[k].row
        /\ \A k, l \in 1..Len(sent) :
               k < l => \E a, b \in 1..Len(handled) :
                            a <= b /\ handled[a] = sent[k].row /\ handled[b] = sent[l].row
        /\ file = loaded

C7_Witness ==
    /\ pc = "done" /\ Len(handled) >= 2 /\ Len(sent) >= 2
    /\ \E k \in 1..Len(file) : file[k].date # cli.for_date

-----------------------------------------------------------------------------
(* Properties of get_calendar and backwards_count *)

\* C8: with -d N and no -y, get_calendar returns exactly N days, the N days
\* that follow today, in order, none repeated or left out, also across the
\* end of an Athenian year.
C8_NextNDays ==
    (res # NotCalled /\ arg.year = 0 /\ arg.days >= 1) =>
        /\ res.err = "ok"
        /\ Len(res.cal) = arg.days
        /\ \A k \in 1..Len(res.cal) : res.cal[k].jdn = today_jdn + k

C8_Witness ==
    /\ res # NotCalled /\ arg.year = 0 /\ res.err = "ok"
    /\ \E k \in 1..(Len(res.cal) - 1) :
           res.cal[k].astronomical_year # res.cal[k + 1].astronomical_year

\* C9: backwards_count returns -1 on the last day of the month, the 29th of
\* a hollow month or the 30th of a full one, the day number before it, and
\* raises ValueError for a day number beyond the month's length.
C9_BackwardsCount ==
    res # NotCalled =>
        /\ arg.day = arg.month_length => res = [err |-> "ok", val |-> -1]
        /\ arg.day < arg.month_length => res = [err |-> "ok", val |-> arg.day]
        /\ arg.day > arg.month_length => res.err = "ValueError"

C9_Witness ==
    /\ res # NotCalled
    /\ arg.day = HollowMonth /\ arg.month_length = HollowMonth /\ res.val = -1

====
